---- MODULE Spec2Model ----
(***************************************************************************)
(* Client side of the hydraulic fault dashboard: the authentication hook   *)
(* (useAuth), the notification hook with its auto-dismiss effect           *)
(* (useNotifications, RealTimeNotifications) and the simulation hook       *)
(* (useHydraulicSimulation) together with the dashboard controls that      *)
(* drive it.  The backend is an opaque REST service: each response is      *)
(* drawn from the payloads the REST contract allows.                       *)
(***************************************************************************)
EXTENDS Integers, Sequences, FiniteSets, Bags

VARIABLES
    \* ---- useAuth ----
    user,             \* useState<User | null>
    isAuthenticated,  \* useState(false)
    isLoading,        \* useState(true)
    lsUser,           \* localStorage 'hydraulic_user'  (JSON text, <<>> = absent)
    lsToken,          \* localStorage 'hydraulic_token' (text, <<>> = absent)
    lsUsers,          \* localStorage 'hydraulic_users' (JSON text, <<>> = absent)
    lastCall,         \* the most recent call into the hook and what it returned
    \* ---- useNotifications + RealTimeNotifications ----
    notifications,    \* useState<Notification[]>
    dismissTimers,    \* pending setTimeout(() => onDismiss(id), 5000): set of [id, due]
    \* ---- useHydraulicSimulation + dashboard controls ----
    mounted,          \* the component that called the hook is mounted
    currentData,
    historicalData,
    systemHealth,
    alerts,
    mlPrediction,
    isRunning,
    intervals,        \* live setInterval callbacks: captured isRunning -> how many
    pollingIntervalRef, \* useRef: the interval handle stored last
    refetchTimers,    \* pending setTimeout(fetchStatus, 100)
    inflight,         \* bag of requests awaiting their response
    alertOpen,        \* a blocking window.alert() dialog is open
    selectedFault,    \* ControlPanel useState('')
    \* ---- AlertPanel and useToast ----
    filter,           \* AlertPanel useState<'all' | 'error' | 'warning' | 'info'>('all')
    toasts,           \* the toast list of useToast
    \* ---- SimulationControls ----
    controlsLoading,  \* useState(false): isLoading of SimulationControls
    togglePc,         \* where handleToggle stands: "idle", "toggle" or "loop"
    attempts,         \* handleToggle's local attempts
    toggleRunning,    \* handleToggle's local running
    location,         \* the router's location
    \* ---- HealthCheckMonitor ----
    health,           \* useState<HealthStatus>
    monitorInterval,  \* the effect ran: setInterval(checkHealth, 30000) is live
    healthChecks,     \* checkHealth calls awaiting the API: the lastCheck of each
    \* ---- environment ----
    now               \* Date.now()

authVars  == <<user, isAuthenticated, isLoading, lsUser, lsToken, lsUsers, lastCall>>
notifVars == <<notifications, dismissTimers>>
simVars   == <<mounted, currentData, historicalData, systemHealth, alerts, mlPrediction,
               isRunning, intervals, pollingIntervalRef, refetchTimers, inflight,
               alertOpen, selectedFault>>
panelVars == <<filter, toasts>>
controlsVars == <<controlsLoading, togglePc, attempts, toggleRunning, location>>
monitorVars == <<health, monitorInterval, healthChecks>>
vars      == <<authVars, notifVars, simVars, panelVars, controlsVars, monitorVars, now>>

(***************************************************************************)
(* Bounds                                                                  *)
(***************************************************************************)
MaxUsers    == 2   \* registered users kept in 'hydraulic_users'
MaxNow      == 7   \* seconds of wall-clock time followed by the notification timers
MaxStamp    == 1   \* distinct Date.now() readings seen by the simulation hook
MaxInflight == 2   \* requests awaiting a response at once
MaxTimers   == 1   \* pending 100 ms refetch timers
MaxNotifs   == 3   \* notifications in the list
MaxToasts   == 2   \* toasts in the list

\* the fetches of a polling-effect re-run and of a due refetch timer are not held
\* back by MaxInflight, nor are the interval ticks where progress is checked:
\* they may exceed it by this
RestartSlack == 1

\* null / undefined
Null == [isNull |-> TRUE]
\* localStorage.getItem of a missing key (falsy)
NoItem == <<>>

(***************************************************************************)
(* Array helpers                                                           *)
(***************************************************************************)
RECURSIVE FilterSeq(_, _)
\* Array.prototype.filter with the kept elements given as a set test
FilterSeq(s, keep) ==
    IF s = <<>> THEN <<>>
    ELSE IF Head(s) \in keep THEN <<Head(s)>> \o FilterSeq(Tail(s), keep)
         ELSE FilterSeq(Tail(s), keep)

Range(s) == {s[i] : i \in DOMAIN s}

\* Array.prototype.includes
Includes(s, x) == \E i \in DOMAIN s : s[i] = x

(***************************************************************************)
(* JSON text of an object: the list of its <<key, value>> members          *)
(***************************************************************************)
UserKeys == <<"id", "username", "email", "role", "permissions", "createdAt">>
CredKeys == UserKeys \o <<"password">>

JsonStringify(obj, keys) == [i \in DOMAIN keys |-> <<keys[i], obj[keys[i]]>>]

JsonParse(text) ==
    [k \in {text[i][1] : i \in DOMAIN text} |->
        LET i == CHOOSE j \in DOMAIN text : text[j][1] = k IN text[i][2]]

\* JSON.parse(text) returns (it throws when the text is cut off inside a member)
JsonValid(text) == \A i \in DOMAIN text : Len(text[i]) = 2

\* a JSON text cut off after the key of its second member
Truncated(text) == <<text[1], <<text[2][1]>>>>

\* the array stored under 'hydraulic_users'
StringifyUsers(us) == [i \in DOMAIN us |-> JsonStringify(us[i], CredKeys)]
ParseUsers(text)   == [i \in DOMAIN text |-> JsonParse(text[i])]

(***************************************************************************)
(* useAuth                                                                 *)
(***************************************************************************)
Roles == {"admin", "operator", "viewer"}

getPermissionsNoRoleCheck(role) ==
    <<"read", "write", "inject_faults", "reset_system", "train_ml">>

getPermissions(role) ==
    CASE role = "admin" ->
            <<"read", "write", "delete", "manage_users", "inject_faults",
              "reset_system", "train_ml", "export_data">>
      [] role = "operator" ->
            <<"read", "write", "inject_faults", "reset_system", "train_ml">>
      [] role = "viewer" -> <<"read">>
      [] OTHER -> <<>>

validCredentials ==
    << [username |-> "admin",    password |-> "admin123",    role |-> "admin",
        email |-> "admin@hydraulic.com"],
       [username |-> "operator", password |-> "operator123", role |-> "operator",
        email |-> "operator@hydraulic.com"],
       [username |-> "viewer",   password |-> "viewer123",   role |-> "viewer",
        email |-> "viewer@hydraulic.com"] >>

\* Array.prototype.find over credential records: index of the first match, 0 if none
FindCredential(list, username, password) ==
    LET hits == {i \in DOMAIN list :
                    /\ (list[i].username = username \/ list[i].email = username)
                    /\ list[i].password = password}
    IN IF hits = {} THEN 0 ELSE CHOOSE i \in hits : \A j \in hits : i <= j

\* JSON.parse(localStorage.getItem('hydraulic_users') || '[]')
StoredUsers == ParseUsers(lsUsers)

\* a user name that holds a character above U+00FF (here: one starting with U+0141)
NonLatin1Names == {"u0141ucja"}

\* btoa(s) throws InvalidCharacterError unless every character of s is Latin-1
BtoaThrows(username) == username \in NonLatin1Names

btoa(username, stamp) == <<"b64", username, stamp>>

hasPermission(permission) ==
    IF user = Null THEN FALSE ELSE Includes(user.permissions, permission)

(***************************************************************************)
(* Inputs offered to the hook                                              *)
(***************************************************************************)
RegUsernames   == {"admin", "u0141ucja"}
RegEmails      == {"alice@x.com", "admin@hydraulic.com"}
RegPasswords   == {"admin123", "pw"}
RegRoles       == {"admin", ""}            \* "" : role omitted (undefined)
LoginNames     == {"admin", "operator", "viewer", "admin@hydraulic.com", "alice@x.com",
                   "u0141ucja"}
LoginPasswords == {"admin123", "operator123", "viewer123", "pw"}

\* registerData.role || 'viewer'
RoleOrViewer(role) == IF role = "" THEN "viewer" ELSE role

\* the session user the page held when it was last reloaded
SessionBefore == IF lastCall.op = "reload" THEN lastCall.user ELSE Null

\* session-restore effect, run once after the first render
RestoreSessionKeepsKeys ==
    /\ isLoading
    /\ IF lsUser # NoItem /\ lsToken # NoItem /\ JsonValid(lsUser)
       THEN /\ user' = JsonParse(lsUser)
            /\ isAuthenticated' = TRUE
       ELSE UNCHANGED <<user, isAuthenticated>>
    /\ isLoading' = FALSE
    /\ lastCall' = [op |-> "restore", before |-> SessionBefore, read |-> lsUser]
    /\ UNCHANGED <<lsUser, lsToken, lsUsers, notifVars, simVars, panelVars, controlsVars, monitorVars, now>>

RestoreSession ==
    /\ isLoading
    /\ IF lsUser # NoItem /\ lsToken # NoItem
       THEN IF JsonValid(lsUser)
            THEN /\ user' = JsonParse(lsUser)
                 /\ isAuthenticated' = TRUE
                 /\ UNCHANGED <<lsUser, lsToken>>
            ELSE /\ lsUser' = NoItem
                 /\ lsToken' = NoItem
                 /\ UNCHANGED <<user, isAuthenticated>>
       ELSE UNCHANGED <<user, isAuthenticated, lsUser, lsToken>>
    /\ isLoading' = FALSE
    /\ lastCall' = [op |-> "restore", before |-> SessionBefore, read |-> lsUser]
    /\ UNCHANGED <<lsUsers, notifVars, simVars, panelVars, controlsVars, monitorVars, now>>

\* page reload: hook state starts over, localStorage stays
Reload ==
    /\ ~isLoading
    /\ user' = Null
    /\ isAuthenticated' = FALSE
    /\ isLoading' = TRUE
    /\ lastCall' = [op |-> "reload", user |-> user]
    /\ UNCHANGED <<lsUser, lsToken, lsUsers, notifVars, simVars, panelVars, controlsVars, monitorVars, now>>

\* while the page is not running the text stored under 'hydraulic_user' is
\* damaged (by the browser, an extension or another script of the origin)
StoredUserDamaged ==
    /\ isLoading
    /\ lsUser # NoItem
    /\ JsonValid(lsUser)
    /\ lsUser' = Truncated(lsUser)
    /\ UNCHANGED <<user, isAuthenticated, isLoading, lsToken, lsUsers, lastCall,
                   notifVars, simVars, panelVars, controlsVars, monitorVars, now>>

registerUsernameOnly(username, email, password, role) ==
    /\ ~isLoading
    /\ LET existingUsers == StoredUsers
           rnd == Len(existingUsers)
           userExists == \E i \in DOMAIN existingUsers :
                            existingUsers[i].username = username
           newUser == [id          |-> [kind |-> "user", stamp |-> now, rnd |-> rnd],
                       username    |-> username,
                       email       |-> email,
                       role        |-> RoleOrViewer(role),
                       permissions |-> getPermissions(RoleOrViewer(role)),
                       createdAt   |-> now,
                       password    |-> password]
       IN IF userExists
          THEN /\ lastCall' = [op |-> "register", success |-> FALSE, username |-> username,
                            email |-> email, password |-> password, role |-> role]
               /\ UNCHANGED lsUsers
          ELSE /\ Len(existingUsers) < MaxUsers
               /\ lsUsers' = StringifyUsers(Append(existingUsers, newUser))
               /\ lastCall' = [op |-> "register", success |-> TRUE, username |-> username,
                            email |-> email, password |-> password, role |-> role]
    /\ UNCHANGED <<user, isAuthenticated, isLoading, lsUser, lsToken,
                   notifVars, simVars, panelVars, controlsVars, monitorVars, now>>

\* rnd: Math.random().toString(36).substr(2, 9) of the new id, taken to differ
\* from that of every user registered before
register(username, email, password, role) ==
    /\ ~isLoading
    /\ LET existingUsers == StoredUsers
           rnd == Len(existingUsers)
           userExists == \E i \in DOMAIN existingUsers :
                            \/ existingUsers[i].username = username
                            \/ existingUsers[i].email = email
           newUser == [id          |-> [kind |-> "user", stamp |-> now, rnd |-> rnd],
                       username    |-> username,
                       email       |-> email,
                       role        |-> RoleOrViewer(role),
                       permissions |-> getPermissions(RoleOrViewer(role)),
                       createdAt   |-> now,
                       password    |-> password]
       IN IF userExists
          THEN /\ lastCall' = [op |-> "register", success |-> FALSE, username |-> username,
                            email |-> email, password |-> password, role |-> role]
               /\ UNCHANGED lsUsers
          ELSE /\ Len(existingUsers) < MaxUsers
               /\ lsUsers' = StringifyUsers(Append(existingUsers, newUser))
               /\ lastCall' = [op |-> "register", success |-> TRUE, username |-> username,
                            email |-> email, password |-> password, role |-> role]
    /\ UNCHANGED <<user, isAuthenticated, isLoading, lsUser, lsToken,
                   notifVars, simVars, panelVars, controlsVars, monitorVars, now>>

StoredUserData(storedUser) ==
    [id          |-> storedUser.id,
     username    |-> storedUser.username,
     email       |-> storedUser.email,
     role        |-> storedUser.role,
     permissions |-> storedUser.permissions,
     createdAt   |-> storedUser.createdAt]

DemoUserData(credential, stamp) ==
    [id          |-> [kind |-> "demo", name |-> credential.username],
     username    |-> credential.username,
     email       |-> credential.email,
     role        |-> credential.role,
     permissions |-> getPermissions(credential.role),
     createdAt   |-> stamp]

\* the user login(username, password) signs in, Null when it returns false
LoginDemoFirst(username, password) ==
    LET s == FindCredential(StoredUsers, username, password)
        c == FindCredential(validCredentials, username, password)
    IN IF c # 0 THEN DemoUserData(validCredentials[c], now)
       ELSE IF s # 0 /\ ~BtoaThrows(username) THEN StoredUserData(StoredUsers[s])
       ELSE Null

LoginUsernameOnly(username, password) ==
    LET hits == {i \in DOMAIN validCredentials :
                    /\ validCredentials[i].username = username
                    /\ validCredentials[i].password = password}
    IN IF hits = {} THEN Null
       ELSE DemoUserData(validCredentials[CHOOSE i \in hits : TRUE], now)

\* (a throwing btoa is caught: login returns false before any setter has run)
LoginUser(username, password) ==
    LET s == FindCredential(StoredUsers, username, password)
        c == FindCredential(validCredentials, username, password)
    IN IF s # 0
       THEN IF BtoaThrows(username) THEN Null ELSE StoredUserData(StoredUsers[s])
       ELSE IF c # 0
       THEN IF BtoaThrows(username) THEN Null ELSE DemoUserData(validCredentials[c], now)
       ELSE Null

loginFailureEndsSession(username, password) ==
    /\ ~isLoading
    /\ LET userData == LoginUser(username, password)
       IN IF userData # Null
          THEN /\ user' = userData
               /\ isAuthenticated' = TRUE
               /\ lsUser' = JsonStringify(userData, UserKeys)
               /\ lsToken' = btoa(username, now)
               /\ lastCall' = [op |-> "login", username |-> username,
                               password |-> password, ok |-> TRUE]
          ELSE /\ lastCall' = [op |-> "login", username |-> username,
                               password |-> password, ok |-> FALSE]
               /\ user' = Null
               /\ isAuthenticated' = FALSE
               /\ lsUser' = NoItem
               /\ lsToken' = NoItem
    /\ UNCHANGED <<isLoading, lsUsers, notifVars, simVars, panelVars, controlsVars, monitorVars, now>>

login(username, password) ==
    /\ ~isLoading
    /\ LET userData == LoginUser(username, password)
       IN IF userData # Null
          THEN /\ user' = userData
               /\ isAuthenticated' = TRUE
               /\ lsUser' = JsonStringify(userData, UserKeys)
               /\ lsToken' = btoa(username, now)
               /\ lastCall' = [op |-> "login", username |-> username,
                               password |-> password, ok |-> TRUE]
          ELSE /\ lastCall' = [op |-> "login", username |-> username,
                               password |-> password, ok |-> FALSE]
               /\ UNCHANGED <<user, isAuthenticated, lsUser, lsToken>>
    /\ UNCHANGED <<isLoading, lsUsers, notifVars, simVars, panelVars, controlsVars, monitorVars, now>>

logoutMemoryOnly ==
    /\ ~isLoading
    /\ user' = Null
    /\ isAuthenticated' = FALSE
    /\ lastCall' = [op |-> "logout"]
    /\ UNCHANGED <<isLoading, lsUser, lsToken, lsUsers, notifVars, simVars, panelVars, controlsVars, monitorVars, now>>

logout ==
    /\ ~isLoading
    /\ user' = Null
    /\ isAuthenticated' = FALSE
    /\ lsUser' = NoItem
    /\ lsToken' = NoItem
    /\ lastCall' = [op |-> "logout"]
    /\ UNCHANGED <<isLoading, lsUsers, notifVars, simVars, panelVars, controlsVars, monitorVars, now>>

(***************************************************************************)
(* useNotifications and the auto-dismiss effect of RealTimeNotifications   *)
(* Time is counted in seconds.                                             *)
(***************************************************************************)
DismissDelay == 5

\* the arguments the dashboard effects pass to addNotification
NotifInputs ==
    { <<"error",   "Critical System Fault", "fault detected",   TRUE>>,
      <<"warning", "System Warning",        "anomaly detected", FALSE>>,
      <<"warning", "System Alert",          "m1",               FALSE>>,
      <<"error",   "System Alert",          "m1",               TRUE>>,
      <<"error",   "System Alert",          "m2",               TRUE>> }

\* Math.random(): a value no live notification created at this instant carries
FreshRandom(ns) ==
    LET used == {ns[i].id.rnd : i \in {j \in DOMAIN ns : ns[j].id.stamp = now}}
    IN CHOOSE r \in 0..Len(ns) : r \notin used /\ \A q \in 0..Len(ns) : q \notin used => r <= q

ArmTimersForAll(ns) ==
    {[id |-> ns[i].id, due |-> now + DismissDelay] : i \in DOMAIN ns}

\* effect of RealTimeNotifications: the cleanup clears every pending timer and
\* the body arms one 5 s timer per non-persistent notification of the new list
ArmTimers(ns) ==
    {[id |-> ns[i].id, due |-> now + DismissDelay] :
        i \in {j \in DOMAIN ns : ~ns[j].persistent}}

TitleMessageExists(ns, title, message) ==
    \E i \in DOMAIN ns : ns[i].title = title /\ ns[i].message = message

AddedAlways(prev, type, title, message, persistent) ==
    Append(prev, [id        |-> [stamp |-> now, rnd |-> FreshRandom(prev)],
                  type      |-> type,
                  title     |-> title,
                  message   |-> message,
                  timestamp |-> now,
                  persistent |-> persistent])

\* the updater passed to setNotifications by addNotification
Added(prev, type, title, message, persistent) ==
    IF TitleMessageExists(prev, title, message) THEN prev
    ELSE Append(prev, [id        |-> [stamp |-> now, rnd |-> FreshRandom(prev)],
                       type      |-> type,
                       title     |-> title,
                       message   |-> message,
                       timestamp |-> now,
                       persistent |-> persistent])

\* the updater passed to setNotifications by dismissNotification
Dismissed(prev, id) == FilterSeq(prev, {n \in Range(prev) : n.id # id})

addNotification(type, title, message, persistent) ==
    LET next == Added(notifications, type, title, message, persistent)
    IN /\ Len(next) <= MaxNotifs
       /\ notifications' = next
       \* returning prev keeps the same array: no render, the timers keep running
       /\ dismissTimers' = IF next = notifications THEN dismissTimers
                           ELSE ArmTimers(next)
       /\ UNCHANGED <<authVars, simVars, panelVars, controlsVars, monitorVars, now>>

\* the X button of a notification
dismissNotification(id) ==
    /\ \E i \in DOMAIN notifications : notifications[i].id = id
    /\ notifications' = Dismissed(notifications, id)
    /\ dismissTimers' = ArmTimers(notifications')
    /\ UNCHANGED <<authVars, simVars, panelVars, controlsVars, monitorVars, now>>

\* the Clear All button, shown while the list is not empty
clearAllNotifications ==
    /\ notifications # <<>>
    /\ notifications' = <<>>
    /\ dismissTimers' = ArmTimers(notifications')
    /\ UNCHANGED <<authVars, simVars, panelVars, controlsVars, monitorVars, now>>

RECURSIVE DismissedAll(_, _)
DismissedAll(prev, ids) ==
    IF ids = {} THEN prev
    ELSE LET id == CHOOSE x \in ids : TRUE
         IN DismissedAll(Dismissed(prev, id), ids \ {id})

\* due timer callbacks run; those in fired run before the effect is re-run,
\* the re-run clears the others and arms new timers for what is left
DismissTimerFire(fired) ==
    /\ fired # {}
    /\ \A t \in fired : t.due <= now
    /\ notifications' = DismissedAll(notifications, {t.id : t \in fired})
    /\ dismissTimers' = ArmTimers(notifications')
    /\ UNCHANGED <<authVars, simVars, panelVars, controlsVars, monitorVars, now>>

\* one second passes; a timer that is due fires before time moves on
TimePasses ==
    /\ now < MaxNow
    /\ \A t \in dismissTimers : t.due > now
    /\ now' = now + 1
    /\ UNCHANGED <<authVars, notifVars, panelVars, controlsVars, monitorVars, simVars>>

(***************************************************************************)
(* useHydraulicSimulation                                                  *)
(***************************************************************************)
Healths == {"healthy", "warning", "fault"}

\* 'connection-error-<Date.now()>' and backend ids are kept as kind + number
alertA1 == [id |-> [kind |-> "alert", n |-> 1], type |-> "warning",
            message |-> "m1", timestamp |-> 0]
alertA2 == [id |-> [kind |-> "alert", n |-> 2], type |-> "error",
            message |-> "m2", timestamp |-> 0]
ConnectionMessage == "Backend server may not be running"

BackendAlertLists == {<<>>, <<alertA1, alertA2>>}

dataD1 == [timestamp |-> 0, pressure |-> 100]
predictionP1 == [days_to_failure |-> 5, risk_level |-> "high"]

\* JSON bodies of GET /status; has_alerts FALSE: the alerts member is missing
\* (a body with "alerts": [] is handled the same way and is left out)
StatusPayloads ==
    {p \in [health : Healths, is_running : BOOLEAN, current_data : {Null, dataD1},
            has_alerts : BOOLEAN, alerts : BackendAlertLists,
            ml_prediction : {Null, predictionP1}] :
        p.has_alerts <=> p.alerts # <<>>}

\* JSON bodies of GET /data/historical
HistoricalPayloads == {<<>>, <<dataD1>>}

FaultTypes == {"pressure_drop"}

Outcomes == {"ok", "notok", "throw"}

\* a request awaiting its response; wasRunning is the isRunning the callback closed over
Request(kind, arg, wasRunning) == [kind |-> kind, arg |-> arg, wasRunning |-> wasRunning]
StatusRequest     == Request("status", "", FALSE)
HistoricalRequest == Request("historical", "", FALSE)

Issue(bag, req) == bag (+) SetToBag({req})
Settle(bag, req) == bag (-) SetToBag({req})
Pending(kind) == {r \in BagToSet(inflight) : r.kind = kind}

\* a.id.includes('connection-error')
IdIncludesConnectionError(a) == a.id.kind = "connection-error"

connectionAlert(stamp) ==
    [id |-> [kind |-> "connection-error", n |-> stamp], type |-> "error",
     message |-> ConnectionMessage, timestamp |-> stamp]

AlertsAfterFailureNoFilter(prev, stamp) == Append(prev, connectionAlert(stamp))

\* prev => [...prev.filter(a => !a.id.includes('connection-error')), connectionAlert]
AlertsAfterFailure(prev, stamp) ==
    Append(FilterSeq(prev, {a \in Range(prev) : ~IdIncludesConnectionError(a)}),
           connectionAlert(stamp))

IntervalsRestartedNoClear(newRunning) == [intervals EXCEPT ![newRunning] = @ + 1]

\* the polling effect's cleanup followed by its body's setInterval
IntervalsRestarted(newRunning) ==
    LET cleared == IF pollingIntervalRef # Null /\ intervals[pollingIntervalRef.running] > 0
                   THEN [intervals EXCEPT ![pollingIntervalRef.running] = @ - 1]
                   ELSE intervals
    IN [cleared EXCEPT ![newRunning] = @ + 1]

IntervalsClearedNot == intervals

\* the polling effect's cleanup: clearInterval(pollingIntervalRef.current)
IntervalsCleared ==
    IF pollingIntervalRef # Null /\ intervals[pollingIntervalRef.running] > 0
    THEN [intervals EXCEPT ![pollingIntervalRef.running] = @ - 1]
    ELSE intervals

EffectRerunsNever(newRunning) == FALSE

\* dependency list [fetchStatus, fetchHistoricalData, isRunning] of the polling effect
EffectReruns(newRunning) == mounted /\ newRunning # isRunning

ReturnedAlwaysRunning(running) == TRUE

\* the isRunning member of the object the hook returns to the dashboard
ReturnedIsRunning(running) == running

\* ControlPanel is rendered: hasPermission('inject_faults') && isRunning
ControlPanelRendered(running) ==
    mounted /\ ~isLoading /\ isAuthenticated /\ hasPermission("inject_faults") /\ running

\* React commits the new isRunning: the polling effect is re-run when it changed
\* (initial fetches, new interval) and ControlPanel loses its state when unrendered
Commit(newRunning, pendingAfter) ==
    /\ isRunning' = newRunning
    /\ IF EffectReruns(newRunning)
       THEN /\ inflight' = Issue(Issue(pendingAfter, StatusRequest), HistoricalRequest)
            /\ intervals' = IntervalsRestarted(newRunning)
            /\ pollingIntervalRef' = [running |-> newRunning]
       ELSE /\ inflight' = pendingAfter
            /\ UNCHANGED <<intervals, pollingIntervalRef>>
    /\ BagCardinality(inflight') <= MaxInflight + RestartSlack
    /\ selectedFault' = IF ControlPanelRendered(ReturnedIsRunning(newRunning))
                        THEN selectedFault ELSE ""

\* the setInterval callback of the effect run that closed over isRunning =
\* captured, taken while at most limit requests are then in flight
PollTickWithin(captured, limit) ==
    /\ ~alertOpen
    /\ intervals[captured] > 0
    /\ inflight' = IF captured THEN Issue(Issue(inflight, StatusRequest), HistoricalRequest)
                   ELSE Issue(inflight, StatusRequest)
    /\ BagCardinality(inflight') <= limit
    /\ UNCHANGED <<authVars, notifVars, panelVars, controlsVars, monitorVars, now, mounted, currentData, historicalData,
                   systemHealth, alerts, mlPrediction, isRunning, intervals,
                   pollingIntervalRef, refetchTimers, alertOpen, selectedFault>>

PollTick(captured) == PollTickWithin(captured, MaxInflight)

AlertsKeepLocal(prev, status) ==
    (IF status.has_alerts THEN status.alerts ELSE <<>>)
        \o FilterSeq(prev, {a \in Range(prev) : IdIncludesConnectionError(a)})

\* setAlerts(status.alerts || [])
AlertsFromStatus(prev, status) == IF status.has_alerts THEN status.alerts ELSE <<>>

\* the dashboard's backendError, kept by an effect on [alerts]:
\* alerts.some(alert => alert.message.includes('Backend server may not be running'))
backendError == \E i \in DOMAIN alerts : alerts[i].message = ConnectionMessage

TakenAsGiven(prev, given) == given

\* if (status.current_data) setCurrentData(status.current_data), and the same
\* for status.ml_prediction
KeptUnlessGiven(prev, given) == IF given # Null THEN given ELSE prev

HealthKept(prev, status) == prev

\* setSystemHealth(status.health)
HealthFromStatus(prev, status) == status.health

\* fetchStatus after its await, as far as the hook's own state goes; stamp is
\* the Date.now() its catch block reads
fetchStatusApplied(outcome, status, stamp) ==
    /\ ~alertOpen
    /\ now' = IF outcome = "throw" THEN stamp ELSE now
    /\ BagIn(StatusRequest, inflight)
    /\ CASE outcome = "ok" ->
              /\ systemHealth' = HealthFromStatus(systemHealth, status)
              /\ currentData' = KeptUnlessGiven(currentData, status.current_data)
              /\ alerts' = AlertsFromStatus(alerts, status)
              /\ mlPrediction' = KeptUnlessGiven(mlPrediction, status.ml_prediction)
              /\ Commit(status.is_running, Settle(inflight, StatusRequest))
         [] outcome = "notok" ->
              /\ inflight' = Settle(inflight, StatusRequest)
              /\ UNCHANGED <<systemHealth, currentData, alerts, mlPrediction, isRunning,
                             intervals, pollingIntervalRef, selectedFault>>
         [] outcome = "throw" ->
              /\ alerts' = AlertsAfterFailure(alerts, stamp)
              /\ inflight' = Settle(inflight, StatusRequest)
              /\ UNCHANGED <<systemHealth, currentData, mlPrediction, isRunning,
                             intervals, pollingIntervalRef, selectedFault>>
    /\ UNCHANGED <<authVars, filter, controlsVars, monitorVars, mounted, historicalData, refetchTimers, alertOpen>>

\* fetchStatus after its await, seen from the hook: the lists kept by
\* useNotifications and useToast are followed in DashStatusResponse
fetchStatusResponse(outcome, status, stamp) ==
    /\ fetchStatusApplied(outcome, status, stamp)
    /\ UNCHANGED <<notifVars, toasts>>

HistoricalAfterFailureCleared(prev, outcome, data) ==
    IF outcome = "ok" THEN data ELSE <<>>

\* if (response.ok) setHistoricalData(data); the catch block only logs
HistoricalAfter(prev, outcome, data) ==
    IF outcome = "ok" THEN data ELSE prev

\* fetchHistoricalData after its await
fetchHistoricalDataResponse(outcome, data) ==
    /\ ~alertOpen
    /\ BagIn(HistoricalRequest, inflight)
    /\ inflight' = Settle(inflight, HistoricalRequest)
    /\ historicalData' = HistoricalAfter(historicalData, outcome, data)
    /\ UNCHANGED <<authVars, notifVars, panelVars, controlsVars, monitorVars, now, mounted, currentData, systemHealth, alerts,
                   mlPrediction, isRunning, intervals, pollingIntervalRef, refetchTimers,
                   alertOpen, selectedFault>>

\* the dashboard below its early returns (spinner, sign-in screen) is on screen
DashboardRendered == mounted /\ ~isLoading /\ isAuthenticated

\* isRunning ? endpoints.simulation.stop : endpoints.simulation.start
ToggleEndpoint(running) == IF running THEN "stop" ELSE "start"

\* the Start/Stop button: toggleSimulation up to its await
toggleSimulation ==
    /\ ~alertOpen
    /\ DashboardRendered
    /\ BagCardinality(inflight) < MaxInflight
    /\ inflight' = Issue(inflight, Request("toggle", ToggleEndpoint(isRunning), isRunning))
    /\ UNCHANGED <<authVars, notifVars, panelVars, controlsVars, monitorVars, now, mounted, currentData, historicalData,
                   systemHealth, alerts, mlPrediction, isRunning, intervals,
                   pollingIntervalRef, refetchTimers, alertOpen, selectedFault>>

ToggledFromState(req) == ~isRunning

\* setIsRunning(!isRunning) with the isRunning of the render that made the callback
Toggled(req) == ~req.wasRunning

ScheduleRefetchNone(timers) == timers

\* setTimeout(fetchStatus, 100)
ScheduleRefetch(timers) == timers + 1

ResponseOkOrNot(outcome) == outcome # "throw"

\* if (response.ok) of the imperative actions; a rejected fetch has no response
ResponseOk(outcome) == outcome = "ok"

\* toggleSimulation after its await
toggleSimulationResponse(req, outcome) ==
    /\ ~alertOpen
    /\ req \in Pending("toggle")
    /\ CASE ResponseOk(outcome) ->
              /\ refetchTimers < MaxTimers
              /\ refetchTimers' = ScheduleRefetch(refetchTimers)
              /\ Commit(Toggled(req), Settle(inflight, req))
              /\ UNCHANGED alertOpen
         [] outcome = "throw" ->
              /\ inflight' = Settle(inflight, req)
              /\ alertOpen' = TRUE
              /\ UNCHANGED <<isRunning, intervals, pollingIntervalRef, selectedFault,
                             refetchTimers>>
         [] OTHER ->
              /\ inflight' = Settle(inflight, req)
              /\ UNCHANGED <<isRunning, intervals, pollingIntervalRef, selectedFault,
                             refetchTimers, alertOpen>>
    /\ UNCHANGED <<authVars, notifVars, panelVars, controlsVars, monitorVars, now, mounted, currentData, historicalData,
                   systemHealth, alerts, mlPrediction>>

\* the fault type Select of ControlPanel
setSelectedFault(fault) ==
    /\ ~alertOpen
    /\ ControlPanelRendered(ReturnedIsRunning(isRunning))
    /\ selectedFault' = fault
    /\ UNCHANGED <<authVars, notifVars, panelVars, controlsVars, monitorVars, now, mounted, currentData, historicalData,
                   systemHealth, alerts, mlPrediction, isRunning, intervals,
                   pollingIntervalRef, refetchTimers, inflight, alertOpen>>

\* disabled={!selectedFault || !isRunning} and if (selectedFault && isRunning)
InjectAllowed(running) == selectedFault # "" /\ running

\* the Inject Fault button: handleInjectFault, then injectFault up to its await
handleInjectFault ==
    /\ ~alertOpen
    /\ ControlPanelRendered(ReturnedIsRunning(isRunning))
    /\ InjectAllowed(ReturnedIsRunning(isRunning))
    /\ BagCardinality(inflight) < MaxInflight
    /\ inflight' = Issue(inflight, Request("inject", selectedFault, FALSE))
    /\ UNCHANGED <<authVars, notifVars, panelVars, controlsVars, monitorVars, now, mounted, currentData, historicalData,
                   systemHealth, alerts, mlPrediction, isRunning, intervals,
                   pollingIntervalRef, refetchTimers, alertOpen, selectedFault>>

\* the Reset System and Train Model buttons of ControlPanel: up to the await
controlPanelPost(kind) ==
    /\ ~alertOpen
    /\ ControlPanelRendered(ReturnedIsRunning(isRunning))
    /\ BagCardinality(inflight) < MaxInflight
    /\ inflight' = Issue(inflight, Request(kind, "", FALSE))
    /\ UNCHANGED <<authVars, notifVars, panelVars, controlsVars, monitorVars, now, mounted, currentData, historicalData,
                   systemHealth, alerts, mlPrediction, isRunning, intervals,
                   pollingIntervalRef, refetchTimers, alertOpen, selectedFault>>

\* injectFault and trainMLModel after their await
refetchOnlyResponse(req, outcome) ==
    /\ ~alertOpen
    /\ req \in Pending("inject") \cup Pending("train")
    /\ inflight' = Settle(inflight, req)
    /\ CASE ResponseOk(outcome) ->
              /\ refetchTimers < MaxTimers
              /\ refetchTimers' = ScheduleRefetch(refetchTimers)
              /\ UNCHANGED alertOpen
         [] outcome = "throw" -> alertOpen' = TRUE /\ UNCHANGED refetchTimers
         [] OTHER -> UNCHANGED <<refetchTimers, alertOpen>>
    /\ UNCHANGED <<authVars, notifVars, panelVars, controlsVars, monitorVars, now, mounted, currentData, historicalData,
                   systemHealth, alerts, mlPrediction, isRunning, intervals,
                   pollingIntervalRef, selectedFault>>

\* resetSystem after its await
resetSystemResponse(req, outcome) ==
    /\ ~alertOpen
    /\ req \in Pending("reset")
    /\ inflight' = Settle(inflight, req)
    /\ CASE ResponseOk(outcome) ->
              /\ refetchTimers < MaxTimers
              /\ historicalData' = <<>>
              /\ alerts' = <<>>
              /\ mlPrediction' = Null
              /\ refetchTimers' = ScheduleRefetch(refetchTimers)
              /\ UNCHANGED alertOpen
         [] outcome = "throw" ->
              /\ alertOpen' = TRUE
              /\ UNCHANGED <<historicalData, alerts, mlPrediction, refetchTimers>>
         [] OTHER ->
              UNCHANGED <<historicalData, alerts, mlPrediction, refetchTimers, alertOpen>>
    /\ UNCHANGED <<authVars, notifVars, panelVars, controlsVars, monitorVars, now, mounted, currentData, systemHealth,
                   isRunning, intervals, pollingIntervalRef, selectedFault>>

\* a 100 ms timer set by an action expires: fetchStatus up to its await
RefetchTimerFires ==
    /\ ~alertOpen
    /\ refetchTimers > 0
    /\ refetchTimers' = refetchTimers - 1
    /\ inflight' = Issue(inflight, StatusRequest)
    /\ BagCardinality(inflight') <= MaxInflight + RestartSlack
    /\ UNCHANGED <<authVars, notifVars, panelVars, controlsVars, monitorVars, now, mounted, currentData, historicalData,
                   systemHealth, alerts, mlPrediction, isRunning, intervals,
                   pollingIntervalRef, alertOpen, selectedFault>>

\* the component leaves the screen: the polling effect's cleanup runs
Unmount ==
    /\ ~alertOpen
    /\ mounted
    /\ mounted' = FALSE
    /\ intervals' = IntervalsCleared
    /\ selectedFault' = ""
    /\ UNCHANGED <<authVars, notifVars, panelVars, controlsVars, monitorVars, now, currentData, historicalData, systemHealth,
                   alerts, mlPrediction, isRunning, pollingIntervalRef, refetchTimers,
                   inflight, alertOpen>>

\* the user closes the alert() dialog; until then the page runs no script
CloseAlert ==
    /\ alertOpen
    /\ alertOpen' = FALSE
    /\ UNCHANGED <<authVars, notifVars, panelVars, controlsVars, monitorVars, now, mounted, currentData, historicalData,
                   systemHealth, alerts, mlPrediction, isRunning, intervals,
                   pollingIntervalRef, refetchTimers, inflight, selectedFault>>

(***************************************************************************)
(* Initial states and specifications                                       *)
(***************************************************************************)
\* hook state of a component that is not on screen
SimIdle ==
    /\ mounted = FALSE
    /\ currentData = Null
    /\ historicalData = <<>>
    /\ systemHealth = "healthy"
    /\ alerts = <<>>
    /\ mlPrediction = Null
    /\ isRunning = FALSE
    /\ intervals = [b \in BOOLEAN |-> 0]
    /\ pollingIntervalRef = Null
    /\ refetchTimers = 0
    /\ inflight = EmptyBag
    /\ alertOpen = FALSE
    /\ selectedFault = ""

NotifEmpty ==
    /\ notifications = <<>>
    /\ dismissTimers = {}

\* a fresh browser profile, first render of useAuth
AuthFresh ==
    /\ user = Null
    /\ isAuthenticated = FALSE
    /\ isLoading = TRUE
    /\ lsUser = NoItem
    /\ lsToken = NoItem
    /\ lsUsers = NoItem
    /\ lastCall = [op |-> "none"]

\* SimulationControls after the first render, on the dashboard's route
ControlsFresh ==
    /\ controlsLoading = FALSE
    /\ togglePc = "idle"
    /\ attempts = 0
    /\ toggleRunning = FALSE
    /\ location = "/"

\* HealthCheckMonitor after the first render, before its effect has run
MonitorFresh ==
    /\ health = [api |-> "healthy", database |-> "healthy", frontend |-> "healthy",
                 websocket |-> "healthy", lastCheck |-> 0]
    /\ monitorInterval = FALSE
    /\ healthChecks = <<>>

\* AlertPanel and useToast after the first render
PanelFresh ==
    /\ filter = "all"
    /\ toasts = <<>>

\* useAuth from a fresh profile
AuthInit == AuthFresh /\ NotifEmpty /\ SimIdle /\ PanelFresh /\ ControlsFresh /\ MonitorFresh /\ now = 0

AuthNext ==
    \/ RestoreSession
    \/ Reload
    \/ StoredUserDamaged
    \/ \E u \in RegUsernames, e \in RegEmails, p \in RegPasswords, r \in RegRoles :
         register(u, e, p, r)
    \/ \E u \in LoginNames, p \in LoginPasswords : login(u, p)
    \/ logout

AuthSpec == AuthInit /\ [][AuthNext]_vars

\* the notification list of a dashboard that has just been rendered
NotifInit == AuthFresh /\ NotifEmpty /\ SimIdle /\ PanelFresh /\ ControlsFresh /\ MonitorFresh /\ now = 0

NotifNext ==
    \/ \E a \in NotifInputs : addNotification(a[1], a[2], a[3], a[4])
    \/ \E i \in DOMAIN notifications : dismissNotification(notifications[i].id)
    \/ clearAllNotifications
    \/ \E fired \in SUBSET dismissTimers : DismissTimerFire(fired)
    \/ TimePasses

NotifSpec == NotifInit /\ [][NotifNext]_vars

\* the dashboard right after its first render and effects, with the session of
\* a demo user (operator or viewer) who has signed in
SessionCredentials == {validCredentials[2], validCredentials[3]}

Init ==
    /\ now = 0
    /\ \E c \in SessionCredentials :
          /\ user = DemoUserData(c, 0)
          /\ lsUser = JsonStringify(DemoUserData(c, 0), UserKeys)
          /\ lsToken = btoa(c.username, 0)
          /\ lastCall = [op |-> "login", username |-> c.username,
                         password |-> c.password, ok |-> TRUE]
    /\ isAuthenticated = TRUE
    /\ isLoading = FALSE
    /\ lsUsers = NoItem
    /\ NotifEmpty
    /\ mounted = TRUE
    /\ currentData = Null
    /\ historicalData = <<>>
    /\ systemHealth = "healthy"
    /\ alerts = <<>>
    /\ mlPrediction = Null
    /\ isRunning = FALSE
    /\ intervals = [b \in BOOLEAN |-> IF b THEN 0 ELSE 1]
    /\ pollingIntervalRef = [running |-> FALSE]
    /\ refetchTimers = 0
    /\ inflight = SetToBag({StatusRequest, HistoricalRequest})
    /\ alertOpen = FALSE
    /\ selectedFault = ""
    /\ PanelFresh
    /\ ControlsFresh
    /\ MonitorFresh

Next ==
    \/ \E c \in BOOLEAN : PollTick(c)
    \/ \E s \in StatusPayloads : fetchStatusResponse("ok", s, now)
    \/ fetchStatusResponse("notok", Null, now)
    \/ \E stamp \in now..MaxStamp : fetchStatusResponse("throw", Null, stamp)
    \/ \E d \in HistoricalPayloads : fetchHistoricalDataResponse("ok", d)
    \/ \E o \in {"notok", "throw"} : fetchHistoricalDataResponse(o, <<>>)
    \/ toggleSimulation
    \/ \E r \in BagToSet(inflight), o \in Outcomes : toggleSimulationResponse(r, o)
    \/ \E f \in FaultTypes : setSelectedFault(f)
    \/ handleInjectFault
    \/ \E k \in {"reset", "train"} : controlPanelPost(k)
    \/ \E r \in BagToSet(inflight), o \in Outcomes : refetchOnlyResponse(r, o)
    \/ \E r \in BagToSet(inflight), o \in Outcomes : resetSystemResponse(r, o)
    \/ RefetchTimerFires
    \/ Unmount
    \/ CloseAlert

Spec == Init /\ [][Next]_vars

(***************************************************************************)
(* The operator's dashboard kept open: the hook stays mounted, every       *)
(* request is answered, every timer that is due fires and every alert()    *)
(* dialog is closed.  Status bodies carry health and is_running only.      *)
(***************************************************************************)
LiveStatusPayloads ==
    {p \in StatusPayloads :
        p.current_data = Null /\ ~p.has_alerts /\ p.ml_prediction = Null}

LiveInit == Init /\ user.role = "operator"

LivePollTick == \E c \in BOOLEAN : PollTickWithin(c, MaxInflight + RestartSlack)

LiveStatusResponse ==
    \/ \E s \in LiveStatusPayloads : fetchStatusResponse("ok", s, now)
    \/ fetchStatusResponse("notok", Null, now)
    \/ fetchStatusResponse("throw", Null, now)

LiveOtherResponse ==
    \/ \E o \in Outcomes : fetchHistoricalDataResponse(o, <<>>)
    \/ \E r \in BagToSet(inflight), o \in Outcomes : toggleSimulationResponse(r, o)
    \/ \E r \in BagToSet(inflight), o \in Outcomes : refetchOnlyResponse(r, o)
    \/ \E r \in BagToSet(inflight), o \in Outcomes : resetSystemResponse(r, o)

LiveNext ==
    \/ LivePollTick
    \/ LiveStatusResponse
    \/ LiveOtherResponse
    \/ toggleSimulation
    \/ \E f \in FaultTypes : setSelectedFault(f)
    \/ handleInjectFault
    \/ \E k \in {"reset", "train"} : controlPanelPost(k)
    \/ RefetchTimerFires
    \/ CloseAlert

\* setInterval and setTimeout callbacks run when due, a fetch settles, and the
\* user closes a dialog; the request bound and an open dialog only delay them
LiveFairness ==
    /\ SF_vars(LivePollTick)
    /\ SF_vars(LiveStatusResponse)
    /\ SF_vars(LiveOtherResponse)
    /\ SF_vars(RefetchTimerFires)
    /\ WF_vars(CloseAlert)

LiveSpec == LiveInit /\ [][LiveNext]_vars /\ LiveFairness

(***************************************************************************)
(* AlertPanel, the dashboard's alert handlers and the toast list           *)
(***************************************************************************)
AlertTypes == {"error", "warning", "info"}
Filters == {"all"} \cup AlertTypes

RECURSIVE SortedNewestFirst(_)
\* Array.prototype.sort((a, b) => b.timestamp - a.timestamp), a stable sort
SortedNewestFirst(s) ==
    IF s = <<>> THEN <<>>
    ELSE LET rest == SortedNewestFirst(Tail(s))
             k == Cardinality({i \in DOMAIN rest : rest[i].timestamp > Head(s).timestamp})
         IN SubSeq(rest, 1, k) \o <<Head(s)>> \o SubSeq(rest, k + 1, Len(rest))

\* the alerts AlertPanel lists:
\* alerts.filter(alert => filter === 'all' || alert.type === filter).sort(...)
filteredAlerts ==
    SortedNewestFirst(FilterSeq(alerts, {a \in Range(alerts) :
                                            filter = "all" \/ a.type = filter}))

\* useToast: addToast(type, title, message) puts a toast at the end of the list
addToast(list, type, title) == Append(list, [type |-> type, title |-> title])

\* useToast: removeToast(id) with the toast's place in the list as its id
removeToast(i) ==
    /\ ~alertOpen
    /\ mounted
    /\ i \in DOMAIN toasts
    /\ toasts' = SubSeq(toasts, 1, i - 1) \o SubSeq(toasts, i + 1, Len(toasts))
    /\ UNCHANGED <<authVars, notifVars, simVars, controlsVars, monitorVars, filter, now>>

\* a filter button of AlertPanel: setFilter
setFilter(f) ==
    /\ ~alertOpen
    /\ mounted
    /\ filter' = f
    /\ UNCHANGED <<authVars, notifVars, simVars, controlsVars, monitorVars, toasts, now>>

\* the X button of a listed alert: onDismissAlert(alert.id) = handleDismissAlert
handleDismissAlert(id) ==
    /\ ~alertOpen
    /\ mounted
    /\ \E i \in DOMAIN filteredAlerts : filteredAlerts[i].id = id
    /\ Len(toasts) < MaxToasts
    /\ toasts' = addToast(toasts, "info", "Alert Dismissed")
    /\ UNCHANGED <<authVars, notifVars, simVars, controlsVars, monitorVars, filter, now>>

\* the Clear All button, shown when alerts.length > 0: handleClearAllAlerts
handleClearAllAlerts ==
    /\ ~alertOpen
    /\ mounted
    /\ alerts # <<>>
    /\ Len(toasts) < MaxToasts
    /\ toasts' = addToast(toasts, "info", "All Alerts Cleared")
    /\ UNCHANGED <<authVars, notifVars, simVars, controlsVars, monitorVars, filter, now>>

(***************************************************************************)
(* The alert panel of a stopped, healthy system: status bodies differ in   *)
(* their alerts only, so the dashboard's toast effects on systemHealth and *)
(* isRunning never run and every toast comes from the alert handlers.      *)
(***************************************************************************)
PanelStatusPayloads ==
    {p \in StatusPayloads :
        /\ p.health = "healthy"
        /\ ~p.is_running
        /\ p.current_data = Null
        /\ p.ml_prediction = Null}

PanelNext ==
    \/ PollTick(FALSE)
    \/ \E s \in PanelStatusPayloads : fetchStatusResponse("ok", s, now)
    \/ \E stamp \in now..MaxStamp : fetchStatusResponse("throw", Null, stamp)
    \/ \E o \in Outcomes : fetchHistoricalDataResponse(o, <<>>)
    \/ \E f \in Filters : setFilter(f)
    \/ \E a \in Range(alerts) : handleDismissAlert(a.id)
    \/ handleClearAllAlerts
    \/ \E i \in 1..MaxToasts : removeToast(i)

PanelSpec == Init /\ [][PanelNext]_vars

(***************************************************************************)
(* The dashboard's effects on systemHealth and alerts                      *)
(***************************************************************************)
HealthEffectRunsAlways(old, new) == TRUE

\* dependency list [systemHealth, addNotification] (and [systemHealth, addToast])
HealthEffectRuns(old, new) == old # new

\* effect "Monitor system health for notifications"
HealthNotified(prev, h) ==
    IF h = "fault"
    THEN Added(prev, "error", "Critical System Fault", "fault detected", TRUE)
    ELSE IF h = "warning"
    THEN Added(prev, "warning", "System Warning", "anomaly detected", FALSE)
    ELSE prev

AlertNotifiedFirst(prev, as) ==
    IF Len(as) > 0
    THEN Added(prev, as[1].type, "System Alert", as[1].message, as[1].type = "error")
    ELSE prev

\* effect "Monitor alerts for notifications": latestAlert = alerts[alerts.length - 1]
AlertNotified(prev, as) ==
    IF Len(as) > 0
    THEN LET latestAlert == as[Len(as)]
         IN Added(prev, latestAlert.type, "System Alert", latestAlert.message,
                  latestAlert.type = "error")
    ELSE prev

\* effect "Enhanced toast notifications for system events"
HealthToasted(prev, h) ==
    IF h = "fault" THEN addToast(prev, "error", "Critical System Fault")
    ELSE IF h = "warning" THEN addToast(prev, "warning", "System Warning")
    ELSE prev

\* a status response and the effects of the render it causes, in the order
\* the dashboard declares them; setAlerts always stores a new array, so the
\* alerts effect runs after every OK response and every rejected fetch
DashStatusResponse(outcome, status, stamp) ==
    /\ fetchStatusApplied(outcome, status, stamp)
    /\ LET healthRuns == HealthEffectRuns(systemHealth, systemHealth')
           afterHealth == IF healthRuns THEN HealthNotified(notifications, systemHealth')
                          ELSE notifications
           next == IF outcome = "notok" THEN afterHealth
                   ELSE AlertNotified(afterHealth, alerts')
       IN /\ Len(next) <= MaxNotifs
          /\ notifications' = next
          /\ dismissTimers' = IF next = notifications THEN dismissTimers
                              ELSE ArmTimers(next)
          /\ toasts' = IF healthRuns THEN HealthToasted(toasts, systemHealth')
                       ELSE toasts
          /\ Len(toasts') <= MaxToasts

\* the condition of alertA1 reported with a higher severity
alertA3 == [id |-> [kind |-> "alert", n |-> 3], type |-> "error",
            message |-> "m1", timestamp |-> 0]

DashAlertLists == {<<>>, <<alertA2, alertA1>>, <<alertA3>>}

\* status bodies of a stopped system without sensor data or prediction
DashStatusPayloads ==
    {[health |-> h, is_running |-> FALSE, current_data |-> Null,
      has_alerts |-> as # <<>>, alerts |-> as, ml_prediction |-> Null] :
        h \in Healths, as \in DashAlertLists}

DashNext ==
    \/ PollTick(FALSE)
    \/ \E s \in DashStatusPayloads : DashStatusResponse("ok", s, now)
    \/ DashStatusResponse("notok", Null, now)
    \/ DashStatusResponse("throw", Null, now)
    \/ \E o \in Outcomes : fetchHistoricalDataResponse(o, <<>>)
    \/ \E i \in DOMAIN notifications : dismissNotification(notifications[i].id)
    \/ clearAllNotifications
    \/ \E i \in 1..MaxToasts : removeToast(i)

DashSpec == LiveInit /\ [][DashNext]_vars

(***************************************************************************)
(* SimulationControls.handleToggle                                         *)
(***************************************************************************)
\* while (!running && attempts < 10)
MaxAttempts == 10

ButtonNeverDisabled(loading) == FALSE

\* <Button onClick={handleToggle} disabled={isLoading}>
ButtonDisabled(loading) == loading

LoopContinuesUnbounded(r, a) == ~r

\* while (!running && attempts < 10)
LoopContinues(r, a) == ~r /\ a < MaxAttempts

NavigatesAfterStatus(r, a) == r /\ a > 0

\* if (running) navigate('/simulation')
Navigates(r, a) == r

\* the Start/Stop button of SimulationControls: handleToggle up to the await
\* inside onToggleSimulation; let running = isRunning reads the isRunning of
\* the render that made the handler
handleToggle ==
    /\ ~alertOpen
    /\ DashboardRendered
    /\ location = "/"
    /\ ~ButtonDisabled(controlsLoading)
    /\ BagCardinality(inflight) < MaxInflight
    /\ inflight' = Issue(inflight, Request("toggle", ToggleEndpoint(isRunning), isRunning))
    /\ controlsLoading' = TRUE
    /\ togglePc' = "toggle"
    /\ attempts' = 0
    /\ toggleRunning' = isRunning
    /\ UNCHANGED <<authVars, notifVars, panelVars, monitorVars, location, now, mounted, currentData,
                   historicalData, systemHealth, alerts, mlPrediction, isRunning,
                   intervals, pollingIntervalRef, refetchTimers, alertOpen,
                   selectedFault>>

\* await onToggleSimulation() returns: toggleSimulation has handled its
\* response and any alert() dialog is closed
handleToggleResumes ==
    /\ ~alertOpen
    /\ togglePc = "toggle"
    /\ Pending("toggle") = {}
    /\ togglePc' = "loop"
    /\ UNCHANGED <<authVars, notifVars, simVars, panelVars, monitorVars, controlsLoading, attempts,
                   toggleRunning, location, now>>

\* the finally block, after which the locals are gone
ToggleOver ==
    /\ controlsLoading' = FALSE
    /\ togglePc' = "idle"
    /\ attempts' = 0
    /\ toggleRunning' = FALSE

\* one turn of the loop: the 200 ms wait, GET /status and its answer
handleTogglePolls(outcome, is_running) ==
    /\ ~alertOpen
    /\ togglePc = "loop"
    /\ LoopContinues(toggleRunning, attempts)
    /\ CASE outcome = "ok" ->
              /\ toggleRunning' = is_running
              /\ attempts' = attempts + 1
              /\ UNCHANGED <<controlsLoading, togglePc>>
         [] outcome = "notok" ->
              /\ attempts' = attempts + 1
              /\ UNCHANGED <<controlsLoading, togglePc, toggleRunning>>
         [] outcome = "throw" -> ToggleOver
    /\ UNCHANGED <<authVars, notifVars, simVars, panelVars, monitorVars, location, now>>

\* the loop is left: if (running) navigate('/simulation'), then finally
handleToggleFinishes ==
    /\ ~alertOpen
    /\ togglePc = "loop"
    /\ ~LoopContinues(toggleRunning, attempts)
    /\ location' = IF Navigates(toggleRunning, attempts) THEN "/simulation" ELSE location
    /\ ToggleOver
    /\ UNCHANGED <<authVars, notifVars, simVars, panelVars, monitorVars, now>>

(***************************************************************************)
(* The operator's dashboard with the Start/Stop button of                  *)
(* SimulationControls: every request is answered, every timer fires,       *)
(* every alert() dialog is closed and handleToggle's awaits return.        *)
(***************************************************************************)
ControlsStatusPayloads == {p \in LiveStatusPayloads : p.health = "healthy"}

ControlsPoll == \E o \in Outcomes, r \in BOOLEAN : handleTogglePolls(o, r)

ControlsToggleResponse ==
    \E req \in BagToSet(inflight), o \in Outcomes : toggleSimulationResponse(req, o)

ControlsFetchResponse ==
    \/ \E s \in ControlsStatusPayloads : fetchStatusResponse("ok", s, now)
    \/ \E o \in Outcomes : fetchHistoricalDataResponse(o, <<>>)

ControlsNext ==
    \/ handleToggle
    \/ handleToggleResumes
    \/ ControlsPoll
    \/ handleToggleFinishes
    \/ ControlsToggleResponse
    \/ ControlsFetchResponse
    \/ RefetchTimerFires
    \/ CloseAlert

ControlsFairness ==
    /\ WF_vars(handleToggleResumes)
    /\ WF_vars(ControlsPoll)
    /\ WF_vars(handleToggleFinishes)
    /\ SF_vars(ControlsToggleResponse)
    /\ WF_vars(CloseAlert)

ControlsSpec == LiveInit /\ [][ControlsNext]_vars /\ ControlsFairness

(***************************************************************************)
(* HealthCheckMonitor: the effect calls checkHealth once and every 30 s;   *)
(* each call fetches /health and then stores a whole new HealthStatus.     *)
(* isMonitoring is never set after its useState(true), so the effect runs  *)
(* once.  Calls may overlap and settle in any order.                       *)
(***************************************************************************)
MaxChecks == 2

\* newHealth.api = apiResponse.ok ? 'healthy' : 'degraded', 'down' in the catch
ApiHealth(outcome) ==
    IF outcome = "throw" THEN "down"
    ELSE IF ResponseOk(outcome) THEN "healthy" ELSE "degraded"

\* newHealth as checkHealth has it at setHealth(newHealth)
NewHealth(outcome, stamp) ==
    [api       |-> ApiHealth(outcome),
     frontend  |-> "healthy",
     database  |-> "healthy",
     websocket |-> IF ApiHealth(outcome) = "healthy" THEN "healthy" ELSE "down",
     lastCheck |-> stamp]

services == <<health.api, health.database, health.frontend, health.websocket>>

overallHealth ==
    IF \A i \in 1..Len(services) : services[i] = "healthy" THEN "healthy"
    ELSE IF \E i \in 1..Len(services) : services[i] = "down" THEN "down"
    ELSE "degraded"

\* checkHealth up to its await: newHealth.lastCheck = Date.now(), fetch issued
checkHealth ==
    /\ Len(healthChecks) < MaxChecks
    /\ healthChecks' = Append(healthChecks, now)

\* the effect body: checkHealth() and setInterval(checkHealth, 30000)
MonitorEffect ==
    /\ ~monitorInterval
    /\ monitorInterval' = TRUE
    /\ checkHealth
    /\ UNCHANGED <<authVars, notifVars, simVars, panelVars, controlsVars, health, now>>

\* the interval calls checkHealth
MonitorIntervalFires ==
    /\ monitorInterval
    /\ checkHealth
    /\ UNCHANGED <<authVars, notifVars, simVars, panelVars, controlsVars, health,
                   monitorInterval, now>>

\* checkHealth after its await: the i-th pending call gets its answer
checkHealthSettles(i, outcome) ==
    /\ i \in 1..Len(healthChecks)
    /\ health' = NewHealth(outcome, healthChecks[i])
    /\ healthChecks' = SubSeq(healthChecks, 1, i - 1) \o
                       SubSeq(healthChecks, i + 1, Len(healthChecks))
    /\ UNCHANGED <<authVars, notifVars, simVars, panelVars, controlsVars,
                   monitorInterval, now>>

MonitorTimePasses ==
    /\ now < MaxNow
    /\ now' = now + 1
    /\ UNCHANGED <<authVars, notifVars, simVars, panelVars, controlsVars, monitorVars>>

MonitorNext ==
    \/ MonitorEffect
    \/ MonitorIntervalFires
    \/ \E i \in 1..MaxChecks, o \in Outcomes : checkHealthSettles(i, o)
    \/ MonitorTimePasses

MonitorSpec == LiveInit /\ [][MonitorNext]_vars

(***************************************************************************)
(* Properties                                                              *)
(***************************************************************************)
HistoricalIssued ==
    CopiesIn(HistoricalRequest, inflight') > CopiesIn(HistoricalRequest, inflight)
StatusIssued ==
    CopiesIn(StatusRequest, inflight') > CopiesIn(StatusRequest, inflight)
InjectIssued ==
    \E f \in FaultTypes :
        CopiesIn(Request("inject", f, FALSE), inflight')
            > CopiesIn(Request("inject", f, FALSE), inflight)
LiveIntervals == intervals[TRUE] + intervals[FALSE]
ConnectionAlerts(as) == {i \in DOMAIN as : as[i].id.kind = "connection-error"}
BackendAlerts(as) == FilterSeq(as, {a \in Range(as) : a.id.kind # "connection-error"})

\* C1: a click on the toggle POSTs to /simulation/stop when isRunning is true
\* and to /simulation/start otherwise; when that POST returns OK, isRunning
\* becomes the negation of the value it had at the click and exactly one
\* fetchStatus timer (100 ms) is added.
C1_ToggleFlipsAndRefetches ==
    [][ /\ toggleSimulation =>
              LET sent == Request("toggle", IF isRunning THEN "stop" ELSE "start", isRunning)
              IN CopiesIn(sent, inflight') = CopiesIn(sent, inflight) + 1
        /\ \A req \in Pending("toggle") :
              toggleSimulationResponse(req, "ok") =>
                  /\ isRunning' = ~req.wasRunning
                  /\ isRunning' = (req.arg = "start")
                  /\ refetchTimers' = refetchTimers + 1 ]_vars

\* C1 witness: the viewer (who has no other way to set a refetch timer) has
\* started the simulation: the OK response set isRunning and left one timer.
C1_Witness ==
    /\ user.role = "viewer"
    /\ isRunning
    /\ refetchTimers = 1

\* C2: a POST to /faults/inject/{type} is issued from the control panel only
\* in a state where the client's isRunning is true.
C2_NoInjectWhileStopped == [][InjectIssued => isRunning]_vars

\* C2 witness: the operator's dashboard is on screen with the simulation
\* stopped while a fault injected earlier, when it ran, is still in flight.
C2_Witness ==
    /\ DashboardRendered
    /\ hasPermission("inject_faults")
    /\ ~isRunning
    /\ Pending("inject") # {}

\* C7: the alerts list never holds more than one connection-error alert, and a
\* failing fetchStatus keeps every other alert, in order, and ends the list
\* with one new connection-error alert stamped with the time of the failure.
C7_SingleConnectionAlert ==
    /\ [](Cardinality(ConnectionAlerts(alerts)) <= 1)
    /\ [][ (\E stamp \in now..MaxStamp : fetchStatusResponse("throw", Null, stamp)) =>
             /\ BackendAlerts(alerts') = BackendAlerts(alerts)
             /\ ConnectionAlerts(alerts') = {Len(alerts')}
             /\ alerts'[Len(alerts')].timestamp = now' ]_vars

\* C7 witness: a status fetch has failed at time 1: the backend alerts received
\* before are kept and the connection-error alert of that time follows them.
C7_Witness ==
    /\ Len(alerts) = 3
    /\ alerts[1] = alertA1
    /\ alerts[2] = alertA2
    /\ alerts[3].id.kind = "connection-error"
    /\ alerts[3].timestamp = 1

\* C9 as stated: every tick fetches status, fetches historical data exactly
\* when isRunning is true, and after the initial mount no historical fetch is
\* issued while isRunning is false.
C9_Original ==
    [][ /\ \A c \in BOOLEAN :
              PollTick(c) => StatusIssued /\ (HistoricalIssued <=> isRunning)
        /\ HistoricalIssued => isRunning' ]_vars

\* C9 amended: every tick fetches status and fetches historical data exactly
\* when isRunning is true; a historical fetch issued while isRunning is false
\* comes from the restart of the polling effect after isRunning has changed.
C9_PollingFetches ==
    [][ /\ \A c \in BOOLEAN :
              PollTick(c) => StatusIssued /\ (HistoricalIssued <=> isRunning)
        /\ (HistoricalIssued /\ ~isRunning') => (mounted /\ isRunning) ]_vars

\* C9 witness: in the viewer's session the simulation has been started and has
\* stopped again, and the historical fetch of that restart is in flight.
C9_Witness ==
    /\ user.role = "viewer"
    /\ mounted
    /\ ~isRunning
    /\ refetchTimers = 1
    /\ BagIn(HistoricalRequest, inflight)

\* C10: once the hook is unmounted no interval is live and no tick issues a
\* fetch: no historical fetch is issued and a status fetch is issued only by
\* a pending 100 ms refetch timer, which it uses up.
C10_NoTickAfterUnmount ==
    /\ [](~mounted => LiveIntervals = 0)
    /\ [][ ~mounted =>
             /\ ~HistoricalIssued
             /\ \A c \in BOOLEAN : ~PollTick(c)
             /\ StatusIssued => refetchTimers' = refetchTimers - 1 ]_vars

\* C10 witness: after the unmount a status response has been applied: isRunning
\* differs from the value the last polling effect run closed over.
C10_Witness ==
    /\ ~mounted
    /\ LiveIntervals = 0
    /\ pollingIntervalRef.running # isRunning

NoDuplicateNotifications ==
    \A i, j \in DOMAIN notifications :
        (notifications[i].title = notifications[j].title
            /\ notifications[i].message = notifications[j].message) => i = j

\* C3: the notification list never holds two entries with the same title and
\* message, and an addNotification whose title and message are already in the
\* list leaves the list as it is.
C3_NoDuplicateNotifications ==
    /\ []NoDuplicateNotifications
    /\ [][ \A a \in NotifInputs :
             (addNotification(a[1], a[2], a[3], a[4])
                /\ TitleMessageExists(notifications, a[2], a[3]))
             => notifications' = notifications ]_vars

\* C3 witness: the list holds a 'System Alert' with message m1 that is not
\* persistent, so the input ('error', 'System Alert', 'm1', persistent) is a
\* duplicate by title and message only, next to a second notification.
C3_Witness ==
    /\ Len(notifications) >= 2
    /\ \E i \in DOMAIN notifications :
          /\ notifications[i].title = "System Alert"
          /\ notifications[i].message = "m1"
          /\ ~notifications[i].persistent

\* C4 as stated: a notification not flagged persistent is gone from the list
\* once 5 seconds have elapsed since it was created.
C4_Original ==
    \A i \in DOMAIN notifications :
        ~notifications[i].persistent => now - notifications[i].timestamp <= DismissDelay

DemoPairs ==
    {<<"admin", "admin123">>, <<"operator", "operator123">>, <<"viewer", "viewer123">>}
DemoEmailPairs ==
    {<<"admin@hydraulic.com", "admin123">>, <<"operator@hydraulic.com", "operator123">>,
     <<"viewer@hydraulic.com", "viewer123">>}
StoredMatch(username, password) ==
    \E i \in DOMAIN StoredUsers :
        /\ StoredUsers[i].username = username \/ StoredUsers[i].email = username
        /\ StoredUsers[i].password = password

\* C5 as stated: login returns true for the three demo pairs and false for
\* every other pair.
C5_Original ==
    lastCall.op = "login" =>
        (lastCall.ok <=> <<lastCall.username, lastCall.password>> \in DemoPairs)

\* C5 amended: login returns true and establishes a session exactly when the
\* name and password match a demo account, or match a stored registered user
\* and the name typed is Latin-1 (btoa encodes it), each by username or by
\* email; it returns false for every other pair.
C5_LoginAccepts ==
    lastCall.op = "login" =>
        /\ lastCall.ok <=>
              \/ <<lastCall.username, lastCall.password>> \in DemoPairs \cup DemoEmailPairs
              \/ /\ StoredMatch(lastCall.username, lastCall.password)
                 /\ ~BtoaThrows(lastCall.username)
        /\ lastCall.ok =>
              /\ isAuthenticated
              /\ user # Null
              /\ lastCall.username \in {user.username, user.email}
              /\ lsUser = JsonStringify(user, UserKeys)
              /\ lsToken # NoItem

\* C5 witness: a login that is not one of the three demo pairs has succeeded.
C5_Witness ==
    /\ lastCall.op = "login"
    /\ lastCall.ok
    /\ <<lastCall.username, lastCall.password>> \notin DemoPairs

StaticPermissions ==
    [admin    |-> <<"read", "write", "delete", "manage_users", "inject_faults",
                    "reset_system", "train_ml", "export_data">>,
     operator |-> <<"read", "write", "inject_faults", "reset_system", "train_ml">>,
     viewer   |-> <<"read">>]

\* C6: hasPermission('inject_faults') holds only for a session user whose role
\* is admin or operator, and the session user's permissions are the static
\* list of the user's role.
C6_InjectPermissionByRole ==
    /\ hasPermission("inject_faults") => (user # Null /\ user.role \in {"admin", "operator"})
    /\ user # Null => (user.role \in Roles /\ user.permissions = StaticPermissions[user.role])

\* C6 witness: a registered viewer's session has been restored after a reload.
C6_Witness ==
    /\ lastCall.op = "restore"
    /\ user # Null
    /\ user.role = "viewer"
    /\ user.id.kind = "user"
    /\ ~hasPermission("inject_faults")

\* C8: when a stored registered user matches the name and password, the
\* session user is the first such stored record, whether or not a demo
\* credential matches too; a demo user is signed in only when none matches.
C8_StoredUsersFirst ==
    lastCall.op = "login" =>
        LET s == FindCredential(StoredUsers, lastCall.username, lastCall.password)
        IN /\ s # 0 =>
                /\ lastCall.ok <=> ~BtoaThrows(lastCall.username)
                /\ lastCall.ok =>
                      /\ user.id = StoredUsers[s].id
                      /\ user.role = StoredUsers[s].role
                      /\ user.permissions = StoredUsers[s].permissions
           /\ (lastCall.ok /\ user.id.kind = "demo") => s = 0

\* C8 witness: admin/admin123 matches a stored user and the demo admin, and
\* the stored record (a viewer) is the session user.
C8_Witness ==
    /\ lastCall.op = "login"
    /\ lastCall.username = "admin"
    /\ lastCall.password = "admin123"
    /\ user.id.kind = "user"
    /\ user.role = "viewer"


\* C11: toggleSimulation calls may overlap and their responses are applied in
\* any order; each OK response writes the negation of the isRunning its own
\* call closed over, whatever the other call in flight wrote or will write, so
\* after both responses isRunning is what the response applied last wrote; a
\* response that is not OK writes nothing.
C11_LastResponseWins ==
    [][ \A req \in Pending("toggle") :
          /\ toggleSimulationResponse(req, "ok") =>
                /\ isRunning' = ~req.wasRunning
                /\ \A other \in Pending("toggle") \ {req} :
                      CopiesIn(other, inflight') = CopiesIn(other, inflight)
          /\ \A o \in {"notok", "throw"} :
                toggleSimulationResponse(req, o) => isRunning' = isRunning ]_vars

\* C11 witness: a start call (made while isRunning was false) and a stop call
\* (made while it was true) are in flight at once, after the response of an
\* earlier toggle has been applied (the viewer's pending refetch timer).
C11_Witness ==
    /\ user.role = "viewer"
    /\ CopiesIn(Request("toggle", "start", FALSE), inflight) = 1
    /\ CopiesIn(Request("toggle", "stop", TRUE), inflight) = 1
    /\ refetchTimers = 1


ActionResponse(req, outcome) ==
    \/ toggleSimulationResponse(req, outcome)
    \/ refetchOnlyResponse(req, outcome)
    \/ resetSystemResponse(req, outcome)

\* C12: when the POST of toggleSimulation, injectFault, resetSystem or
\* trainMLModel throws, one alert() dialog opens, the six state values of the
\* hook are unchanged and no refetch is scheduled; when the POST returns a
\* non-OK response the same values are unchanged, no refetch is scheduled and
\* no dialog opens.
C12_FailuresChangeNothing ==
    [][ \A req \in BagToSet(inflight) :
          /\ ActionResponse(req, "throw") =>
                /\ ~alertOpen /\ alertOpen'
                /\ UNCHANGED <<isRunning, currentData, historicalData, systemHealth,
                               alerts, mlPrediction, refetchTimers>>
          /\ ActionResponse(req, "notok") =>
                UNCHANGED <<isRunning, currentData, historicalData, systemHealth,
                            alerts, mlPrediction, refetchTimers, alertOpen>> ]_vars

\* C12 witness: the dialog of a failed POST is open while the simulation runs
\* with history and alerts on screen and no refetch pending.
C12_Witness ==
    /\ alertOpen
    /\ isRunning
    /\ historicalData # <<>>
    /\ alerts # <<>>
    /\ mlPrediction # Null
    /\ refetchTimers = 0


ActionSucceeded ==
    \E req \in Pending("inject") \cup Pending("train") \cup Pending("reset") :
        refetchOnlyResponse(req, "ok") \/ resetSystemResponse(req, "ok")

C14_FetchFailuresKeepData ==
    [][ /\ (\E stamp \in now..MaxStamp : fetchStatusResponse("throw", Null, stamp)) =>
              UNCHANGED <<currentData, historicalData, systemHealth, isRunning,
                          mlPrediction>>
        /\ (\/ fetchHistoricalDataResponse("throw", <<>>)
            \/ fetchHistoricalDataResponse("notok", <<>>)
            \/ fetchStatusResponse("notok", Null, now)) =>
              UNCHANGED <<currentData, historicalData, systemHealth, isRunning,
                          mlPrediction, alerts>> ]_vars

\* C14 witness: a status fetch has failed (its connection-error alert ends the
\* list) while the data received before the failure is still in place.
C14_Witness ==
    /\ alerts # <<>>
    /\ alerts[Len(alerts)].id.kind = "connection-error"
    /\ currentData = dataD1
    /\ historicalData = <<dataD1>>
    /\ systemHealth = "fault"
    /\ isRunning
    /\ mlPrediction = predictionP1


PostKinds == {"toggle", "inject", "reset", "train"}
PostIssued ==
    \E r \in BagToSet(inflight') :
        r.kind \in PostKinds /\ CopiesIn(r, inflight') > CopiesIn(r, inflight)

\* C15 as stated: while the session user's role is viewer, no state-changing
\* POST (simulation start/stop/reset, fault injection, ML training) is issued
\* from the dashboard.
C15_Original ==
    [][ (user # Null /\ user.role = "viewer") => ~PostIssued ]_vars


\* C16: once the restore effect has run, after any sequence of login, logout
\* and register calls isAuthenticated is true exactly when user is non-null
\* and exactly when 'hydraulic_user' and 'hydraulic_token' are both present,
\* and then 'hydraulic_user' holds the JSON text of the session user.
C16_SessionConsistent ==
    ~isLoading =>
        /\ isAuthenticated <=> user # Null
        /\ isAuthenticated <=> (lsUser # NoItem /\ lsToken # NoItem)
        /\ isAuthenticated => lsUser = JsonStringify(user, UserKeys)

\* C16 witness: a logout has closed the session of a registered user.
C16_Witness ==
    /\ lastCall.op = "logout"
    /\ StoredUsers # <<>>
    /\ ~isAuthenticated
    /\ user = Null
    /\ lsUser = NoItem
    /\ lsToken = NoItem

\* C17: the restore effect that runs after a reload ends with isLoading
\* false; it restores the user the page held before the reload, restores no
\* user when the page held none, and when the text under 'hydraulic_user'
\* does not parse it removes both session keys and restores no user.
C17_SessionSurvivesReload ==
    lastCall.op = "restore" =>
        /\ ~isLoading
        /\ IF lastCall.read # NoItem /\ ~JsonValid(lastCall.read)
           THEN /\ user = Null
                /\ ~isAuthenticated
                /\ lsUser = NoItem
                /\ lsToken = NoItem
           ELSE /\ user = lastCall.before
                /\ isAuthenticated <=> lastCall.before # Null

\* C17 witness: a reload of a page with a demo session has restored that user.
C17_Witness ==
    /\ lastCall.op = "restore"
    /\ lastCall.before # Null
    /\ lastCall.before.id.kind = "demo"
    /\ user = lastCall.before
    /\ isAuthenticated
    /\ ~isLoading

\* a reload has found an unparsable 'hydraulic_user' and removed both keys
RestoreFoundDamage ==
    /\ lastCall.op = "restore"
    /\ lastCall.read # NoItem
    /\ ~JsonValid(lastCall.read)
    /\ lsUser = NoItem

\* a matching stored user was refused because btoa threw on the name typed
LoginRefusedByBtoa ==
    /\ lastCall.op = "login"
    /\ ~lastCall.ok
    /\ StoredMatch(lastCall.username, lastCall.password)


\* the backend is reachable and rests in health h and running state r: every
\* status response that arrives is OK and carries h and r, and a start or
\* stop is acknowledged only when it leaves the backend in r
BackendSettled(h, r) ==
    /\ LiveStatusResponse =>
          \E s \in LiveStatusPayloads :
              /\ s.health = h
              /\ s.is_running = r
              /\ fetchStatusResponse("ok", s, now)
    /\ \A req \in Pending("toggle") :
          toggleSimulationResponse(req, "ok") => Toggled(req) = r

\* C18: a successful status response leaves systemHealth and isRunning equal
\* to its health and is_running; and if from some point on the backend is
\* reachable and rests in one state, systemHealth and isRunning eventually
\* equal that state and stay equal to it.
C18_HealthFollowsBackend ==
    /\ [][ \A s \in LiveStatusPayloads :
              fetchStatusResponse("ok", s, now) =>
                  /\ systemHealth' = s.health
                  /\ isRunning' = s.is_running ]_vars
    /\ \A h \in Healths, r \in BOOLEAN :
          <>[][BackendSettled(h, r)]_vars => <>[](systemHealth = h /\ isRunning = r)

\* C18 witness: status responses have brought the page from healthy and
\* stopped to fault and running, and the 1 s polling interval is installed.
C18_Witness ==
    /\ systemHealth = "fault"
    /\ isRunning
    /\ pollingIntervalRef.running
    /\ intervals[TRUE] = 1
    /\ inflight = EmptyBag


\* C20: a successful status response replaces the alerts list by the
\* response's alerts, or by the empty list when the response has none; no
\* connection-error alert made by the client is left in it and backendError
\* is false afterwards.
C20_AlertsFromBackend ==
    [][ \A s \in StatusPayloads :
           fetchStatusResponse("ok", s, now) =>
               /\ alerts' = (IF s.has_alerts THEN s.alerts ELSE <<>>)
               /\ ConnectionAlerts(alerts') = {}
               /\ ~backendError' ]_vars

\* a connection-error alert is shown, the banner is up, a status fetch is pending
BannerUp ==
    /\ backendError
    /\ ConnectionAlerts(alerts) # {}
    /\ BagIn(StatusRequest, inflight)

\* C20 witness: after a failed status fetch (only its catch block moves the
\* clock) a later response has put the backend's two alerts in the list, with
\* no connection-error alert and the banner down.
C20_Witness ==
    /\ now > 0
    /\ alerts = <<alertA1, alertA2>>
    /\ ~backendError
    /\ mounted


\* C19 as stated: after onDismissAlert(id) the alert with that id is not in
\* the list AlertPanel shows, and after Clear All that list is empty.
C19_Original ==
    [][ /\ \A a \in Range(alerts) :
              handleDismissAlert(a.id) =>
                  \A i \in DOMAIN filteredAlerts' : filteredAlerts'[i].id # a.id
        /\ handleClearAllAlerts => filteredAlerts' = <<>> ]_vars

\* what the two handlers do: they add a toast and leave alerts, the filter
\* and so the list shown as they were
C19_HandlersOnlyToast ==
    [][ (handleClearAllAlerts \/ \E a \in Range(alerts) : handleDismissAlert(a.id)) =>
           /\ alerts' = alerts
           /\ filteredAlerts' = filteredAlerts
           /\ Len(toasts') = Len(toasts) + 1 ]_vars


\* the persistent notifications of a list
Persistent(ns) == {n \in Range(ns) : n.persistent}

\* C21: the auto-dismiss timers remove no persistent notification; a
\* persistent notification leaves the list only by dismissNotification with
\* its id or by clearAllNotifications; and dismissNotification(id) removes
\* the notification with that id and no other.
C21_PersistentStays ==
    [][ /\ \A fired \in SUBSET dismissTimers :
              DismissTimerFire(fired) => Persistent(notifications) \subseteq Range(notifications')
        /\ \A n \in Persistent(notifications) :
              n \notin Range(notifications') =>
                  dismissNotification(n.id) \/ clearAllNotifications
        /\ \A i \in DOMAIN notifications :
              dismissNotification(notifications[i].id) =>
                  /\ Range(notifications') =
                        Range(notifications) \ {notifications[i]}
                  /\ Len(notifications') = Len(notifications) - 1 ]_vars

\* C21 witness: a persistent notification is still listed more than 5 s after
\* it was added, next to a younger one, and no timer is pending for it.
C21_Witness ==
    \E i \in DOMAIN notifications :
        /\ notifications[i].persistent
        /\ now > notifications[i].timestamp + DismissDelay
        /\ Len(notifications) > 1
        /\ \A t \in dismissTimers : t.id # notifications[i].id


\* the notifications made by the health effect
HealthNotes(ns) ==
    {n \in Range(ns) : n.title \in {"Critical System Fault", "System Warning"}}

IsFaultNote(n) == n.title = "Critical System Fault" /\ n.type = "error" /\ n.persistent
IsWarningNote(n) == n.title = "System Warning" /\ n.type = "warning" /\ ~n.persistent

\* C22 as stated: every change of systemHealth to fault adds a persistent
\* error 'Critical System Fault', every change to warning adds a
\* non-persistent 'System Warning', a change to healthy and a poll with the
\* same health add no health notification.
C22_Original ==
    [][ /\ (systemHealth' # systemHealth /\ systemHealth' = "fault") =>
              \E n \in Range(notifications') \ Range(notifications) : IsFaultNote(n)
        /\ (systemHealth' # systemHealth /\ systemHealth' = "warning") =>
              \E n \in Range(notifications') \ Range(notifications) : IsWarningNote(n)
        /\ (systemHealth' = systemHealth \/ systemHealth' = "healthy") =>
              HealthNotes(notifications') \subseteq HealthNotes(notifications) ]_vars

\* C22 amended: after a change of systemHealth to fault the list holds a
\* persistent error 'Critical System Fault', after a change to warning a
\* non-persistent 'System Warning'; the change adds that notification exactly
\* when none with its title and message was in the list, and adds no other
\* health notification; a change to healthy and a poll with the same health
\* add no health notification.
C22_HealthNotifications ==
    [][ LET added == HealthNotes(notifications') \ HealthNotes(notifications)
        IN /\ (systemHealth' # systemHealth /\ systemHealth' = "fault") =>
                 /\ \E n \in Range(notifications') : IsFaultNote(n)
                 /\ \A n \in added : IsFaultNote(n)
                 /\ added # {} <=>
                       ~TitleMessageExists(notifications, "Critical System Fault",
                                           "fault detected")
           /\ (systemHealth' # systemHealth /\ systemHealth' = "warning") =>
                 /\ \E n \in Range(notifications') : IsWarningNote(n)
                 /\ \A n \in added : IsWarningNote(n)
                 /\ added # {} <=>
                       ~TitleMessageExists(notifications, "System Warning",
                                           "anomaly detected")
           /\ (systemHealth' = systemHealth \/ systemHealth' = "healthy") =>
                 added = {} ]_vars

\* C22 witness: systemHealth has changed to fault twice (two fault toasts) and
\* the list holds one 'Critical System Fault' notification.
C22_Witness ==
    /\ systemHealth = "fault"
    /\ Len(toasts) = 2
    /\ \A i \in DOMAIN toasts : toasts[i].title = "Critical System Fault"
    /\ Cardinality({n \in Range(notifications) : IsFaultNote(n)}) = 1


\* no two entries of 'hydraulic_users' share a username or an email
UsersUnique ==
    \A i, j \in DOMAIN StoredUsers :
        i # j => /\ StoredUsers[i].username # StoredUsers[j].username
                 /\ StoredUsers[i].email # StoredUsers[j].email

\* C23: no two entries of 'hydraulic_users' ever share a username or an
\* email; a register whose username or email is already stored returns
\* success = false and leaves 'hydraulic_users' as it was; any other register
\* returns success = true and appends exactly one entry with the name, email
\* and password given, role viewer when none was given, and the permissions
\* of its role.
C23_RegisterKeepsUnique ==
    /\ [] UsersUnique
    /\ [][ (lastCall'.op = "register" /\ (lastCall' # lastCall \/ lsUsers' # lsUsers)) =>
              IF \E i \in DOMAIN StoredUsers :
                    \/ StoredUsers[i].username = lastCall'.username
                    \/ StoredUsers[i].email = lastCall'.email
              THEN /\ ~lastCall'.success
                   /\ lsUsers' = lsUsers
              ELSE LET new == StoredUsers'[Len(StoredUsers')]
                   IN /\ lastCall'.success
                      /\ Len(StoredUsers') = Len(StoredUsers) + 1
                      /\ SubSeq(StoredUsers', 1, Len(StoredUsers)) = StoredUsers
                      /\ new.username = lastCall'.username
                      /\ new.email = lastCall'.email
                      /\ new.password = lastCall'.password
                      /\ new.role = (IF lastCall'.role = "" THEN "viewer"
                                     ELSE lastCall'.role)
                      /\ new.permissions = getPermissions(new.role) ]_vars

\* C23 witness: with two users stored, one of them registered without a role,
\* a further register has been refused.
C23_Witness ==
    /\ lastCall.op = "register"
    /\ ~lastCall.success
    /\ Len(StoredUsers) = 2
    /\ \E i \in DOMAIN StoredUsers :
          StoredUsers[i].role = "viewer" /\ StoredUsers[i].permissions = <<"read">>


\* C24: a login that returns false and every register call leave user,
\* isAuthenticated, 'hydraulic_user' and 'hydraulic_token' as they were, and
\* login and logout leave 'hydraulic_users' as it was.  (The steps taken
\* with isLoading false before and after are the calls of login, register
\* and logout; lastCall' names the call.)
C24_AuthFrame ==
    [][ (~isLoading /\ ~isLoading') =>
           /\ (lastCall'.op = "login" /\ ~lastCall'.ok) =>
                 UNCHANGED <<user, isAuthenticated, lsUser, lsToken>>
           /\ lastCall'.op = "register" =>
                 UNCHANGED <<user, isAuthenticated, lsUser, lsToken>>
           /\ lastCall'.op \in {"login", "logout"} => lsUsers' = lsUsers ]_vars

\* C24 witness: a login has failed while a session was open, and the session
\* of the registered user is still there.
C24_Witness ==
    /\ lastCall.op = "login"
    /\ ~lastCall.ok
    /\ isAuthenticated
    /\ user # Null
    /\ user.id.kind = "user"
    /\ lsUser = JsonStringify(user, UserKeys)
    /\ lsToken # NoItem


\* C25 as stated: handleToggle navigates to /simulation only when, after
\* onToggleSimulation, a status answer has reported is_running true; so a
\* press that stops a running simulation (no status is fetched then, attempts
\* stays 0) does not navigate.
C25_Original ==
    [][ location' # location => NavigatesAfterStatus(toggleRunning, attempts) ]_vars

\* what handleToggle does: it navigates exactly when its local running is
\* true at the end of the loop, and that is also so, without any status
\* fetched, when the button was pressed while isRunning was true
C25_NavigatesOnLocalRunning ==
    [][ handleToggleFinishes => (location' = "/simulation" <=> toggleRunning) ]_vars

\* a press of Stop is about to navigate: the loop was skipped
StopPressNavigates ==
    /\ togglePc = "loop"
    /\ toggleRunning
    /\ attempts = 0
    /\ ~isRunning
    /\ location = "/"

\* C26: the loop of handleToggle makes at most 10 turns; isLoading of
\* SimulationControls is true exactly while handleToggle is under way and is
\* false again afterwards, whether the loop ended by a running status, by ten
\* turns or by a rejected status fetch; and handleToggle starts only while
\* isLoading is false.
C26_ToggleTerminates ==
    /\ [](attempts <= MaxAttempts)
    /\ [](controlsLoading <=> togglePc # "idle")
    /\ [][ handleToggle => ~controlsLoading ]_vars
    /\ (controlsLoading ~> ~controlsLoading)

\* C26 witness: ten status answers have not shown the simulation running and
\* handleToggle is about to finish.
C26_Witness ==
    /\ togglePc = "loop"
    /\ attempts = MaxAttempts
    /\ ~toggleRunning
    /\ controlsLoading


\* C27: while the hook is mounted exactly one polling interval is live, the
\* one made by the effect run that closed over the current isRunning, and
\* never more than one; every change of isRunning, to true or to false,
\* issues one status fetch and one historical-data fetch on top of the
\* requests left by the response that caused it, and installs that interval.
C27_RestartOnChange ==
    /\ [](LiveIntervals <= 1)
    /\ [](mounted => intervals[isRunning] = 1 /\ pollingIntervalRef.running = isRunning)
    /\ [][ (mounted /\ isRunning' # isRunning) =>
              \E req \in BagToSet(inflight) :
                  inflight' = Issue(Issue(Settle(inflight, req), StatusRequest),
                                    HistoricalRequest) ]_vars

\* C27 witness: a status response has reported the simulation running: the
\* 1 s interval of the new effect run is the only one and the two fetches of
\* the restart are in flight.
C27_Witness ==
    /\ mounted
    /\ isRunning
    /\ intervals[TRUE] = 1
    /\ intervals[FALSE] = 0
    /\ refetchTimers = 0
    /\ inflight = SetToBag({StatusRequest, HistoricalRequest})
    /\ historicalData # <<>>


\* the OK status response with body s is applied (the first conjuncts follow
\* from the last; they are tested first because they are quick to test)
StatusApplied(s) ==
    /\ BagIn(StatusRequest, inflight)
    /\ systemHealth' = s.health
    /\ isRunning' = s.is_running
    /\ fetchStatusResponse("ok", s, now)

ResetSucceeded == \E req \in Pending("reset") : resetSystemResponse(req, "ok")

OverallFor(outcome) == ApiHealth(outcome)

\* C30 as stated: after every health check the overall status is healthy when
\* the API answered OK, degraded when it answered with a non-OK response and
\* down when the fetch threw.
C30_Original ==
    [][ \A i \in 1..MaxChecks, o \in Outcomes :
            checkHealthSettles(i, o) => overallHealth' = OverallFor(o) ]_vars

\* What the code does: after every health check the overall status is healthy
\* when the API answered OK and down otherwise, because a check that finds
\* the API not healthy records the websocket as down.
C30_OverallDownUnlessOk ==
    [][ \A i \in 1..MaxChecks, o \in Outcomes :
            checkHealthSettles(i, o) =>
                overallHealth' = IF ResponseOk(o) THEN "healthy" ELSE "down" ]_vars

\* the API answered a check with a non-OK response and the overall status is down
DegradedApiShownDown == health.api = "degraded" /\ overallHealth = "down"

\* the overall status is never degraded
OverallNeverDegraded == overallHealth # "degraded"


\* the alerts state was set by this step: an OK status response or a rejected
\* status fetch, followed by the effects of its render
AlertsUpdated ==
    \/ \E s \in DashStatusPayloads : DashStatusResponse("ok", s, now)
    \/ DashStatusResponse("throw", Null, now)

\* ns has a 'System Alert' notification with the message of alert a
HasAlertNote(ns, a) == TitleMessageExists(ns, "System Alert", a.message)

\* every 'System Alert' notification of ns with the message of alert a is
\* persistent exactly when a is an error
AlertNotePersistence(ns, a) ==
    \A i \in DOMAIN ns :
        (ns[i].title = "System Alert" /\ ns[i].message = a.message) =>
            (ns[i].persistent <=> a.type = "error")

\* C29 as stated: after every update of alerts to a non-empty list there is a
\* 'System Alert' notification with the message of the last alert, persistent
\* exactly when that alert is an error.
C29_Original ==
    [][ (AlertsUpdated /\ alerts' # <<>>) =>
            /\ HasAlertNote(notifications', alerts'[Len(alerts')])
            /\ AlertNotePersistence(notifications', alerts'[Len(alerts')]) ]_vars

\* C29: after every update of alerts to a non-empty list there is a 'System
\* Alert' notification with the message of the last alert, so one that was
\* dismissed is there again after the next update that still ends with that
\* alert; it is persistent exactly when that alert is an error if no 'System
\* Alert' with that message was there before the update, and otherwise it is
\* the notification that was there, unchanged.
C29_AlertNotified ==
    [][ (AlertsUpdated /\ alerts' # <<>>) =>
            LET latestAlert == alerts'[Len(alerts')]
            IN /\ HasAlertNote(notifications', latestAlert)
               /\ ~HasAlertNote(notifications, latestAlert) =>
                      AlertNotePersistence(notifications', latestAlert)
               /\ HasAlertNote(notifications, latestAlert) =>
                      \A i \in DOMAIN notifications :
                          (notifications[i].title = "System Alert"
                              /\ notifications[i].message = latestAlert.message) =>
                                  \E j \in DOMAIN notifications' :
                                      notifications'[j] = notifications[i] ]_vars

\* C29 witness: the alerts end with the warning alertA1 and its 'System
\* Alert' notification, not persistent, is the only notification although the
\* health is fault: the fault notification was dismissed and not re-created,
\* the alert notification is there.
C29_Witness ==
    /\ alerts = <<alertA2, alertA1>>
    /\ systemHealth = "fault"
    /\ Len(notifications) = 1
    /\ notifications[1].title = "System Alert"
    /\ notifications[1].message = alertA1.message
    /\ ~notifications[1].persistent

\* an error alert is the last one reported and its 'System Alert'
\* notification is the non-persistent one made for an earlier warning
ErrorAlertNotPersistent ==
    /\ alerts = <<alertA3>>
    /\ \E i \in DOMAIN notifications :
          /\ notifications[i].title = "System Alert"
          /\ notifications[i].message = alertA3.message
          /\ ~notifications[i].persistent

====
